---------------------------- MODULE Spec2Model ----------------------------
(***************************************************************************)
(* Model of streamlit_app.py: the cached roster load (load_players) and    *)
(* the query classifier and responder (process_query).                     *)
(*                                                                         *)
(* Text is a sequence of one-character strings, so that strip(), lower(),  *)
(* isdigit(), int(), title() and the substring test act on characters as   *)
(* the Python built-ins do.  A JSON value is a record tagged by its type;  *)
(* a player is a function from field names to JSON values whose domain     *)
(* holds the fields that are present in data.json.                         *)
(***************************************************************************)
EXTENDS Integers, Sequences, FiniteSets, TLC

VARIABLES
    file,        \* data.json on disk
    cache,       \* the memo of @st.cache_data around load_players
    players,     \* the module global `players` of the latest script run
    banner,      \* the st.error messages shown by the latest script run
    user_input,  \* the value of the text_input widget (key "user_input")
    pc,          \* "idle", or "rerun" when a script run is queued
    lib,         \* the latest call of fuzzywuzzy's process.extractOne
    response     \* what the latest script run displayed for user_input

vars == <<file, cache, players, banner, user_input, pc, lib, response>>

(***************************************************************************)
(* Bounds of the model.                                                    *)
(***************************************************************************)
MaxPlayers == 2

(***************************************************************************)
(* Characters and the str methods the program calls.                       *)
(***************************************************************************)
LowerCase == <<"a","b","c","d","e","f","g","h","i","j","k","l","m",
               "n","o","p","q","r","s","t","u","v","w","x","y","z">>

UpperCase == <<"A","B","C","D","E","F","G","H","I","J","K","L","M",
               "N","O","P","Q","R","S","T","U","V","W","X","Y","Z">>

DecimalDigits == <<"0","1","2","3","4","5","6","7","8","9">>

\* Characters of Unicode category No for which str.isdigit() is true and
\* which int() rejects (superscript two, U+00B2).
OtherDigits == {"SUPERSCRIPT TWO"}

WhiteSpace == {" ", "\t"}

IndexOf(c, alphabet) == CHOOSE i \in 1..Len(alphabet) : alphabet[i] = c

InSeq(c, alphabet) == \E i \in 1..Len(alphabet) : alphabet[i] = c

LowerChar(c) == IF InSeq(c, UpperCase) THEN LowerCase[IndexOf(c, UpperCase)] ELSE c

UpperChar(c) == IF InSeq(c, LowerCase) THEN UpperCase[IndexOf(c, LowerCase)] ELSE c

IsCased(c) == InSeq(c, LowerCase) \/ InSeq(c, UpperCase)

\* str.lower()
Lower(s) == [i \in 1..Len(s) |-> LowerChar(s[i])]

\* str.title(): a cased character is upper-cased when it follows an uncased
\* one (or starts the string) and lower-cased otherwise.
Title(s) ==
    [i \in 1..Len(s) |->
        IF i = 1 \/ ~IsCased(s[i - 1]) THEN UpperChar(s[i]) ELSE LowerChar(s[i])]

RECURSIVE LStrip(_)
LStrip(s) ==
    IF s # <<>> /\ Head(s) \in WhiteSpace THEN LStrip(Tail(s)) ELSE s

RECURSIVE RStrip(_)
RStrip(s) ==
    IF s # <<>> /\ s[Len(s)] \in WhiteSpace
    THEN RStrip(SubSeq(s, 1, Len(s) - 1))
    ELSE s

\* str.strip()
Strip(s) == RStrip(LStrip(s))

\* `needle in s`
Contains(s, needle) ==
    \E i \in 1..(Len(s) - Len(needle) + 1) :
        SubSeq(s, i, i + Len(needle) - 1) = needle

\* str.isdigit(): non-empty and every character is a digit, decimal or not.
isdigit(s) ==
    /\ s # <<>>
    /\ \A i \in 1..Len(s) : InSeq(s[i], DecimalDigits) \/ s[i] \in OtherDigits

\* int(s) accepts only decimal digits.
IntAccepts(s) == s # <<>> /\ \A i \in 1..Len(s) : InSeq(s[i], DecimalDigits)

RECURSIVE IntValue(_)
IntValue(s) ==
    IF s = <<>> THEN 0
    ELSE 10 * IntValue(SubSeq(s, 1, Len(s) - 1))
            + (IndexOf(s[Len(s)], DecimalDigits) - 1)

(***************************************************************************)
(* JSON values and player records.                                         *)
(***************************************************************************)
None == [type |-> "null"]

Num(n) == [type |-> "number", val |-> n]

Str(s) == [type |-> "string", val |-> s]

\* dict.get(key, default)
Get(p, key, default) == IF key \in DOMAIN p THEN p[key] ELSE default

\* dict.get(key)
GetOrNone(p, key) == Get(p, key, None)

\* str() of a value inside an f-string
Format(v) ==
    IF v = None THEN [text |-> "None"]
    ELSE IF v.type = "number" THEN [number |-> v.val]
    ELSE [text |-> v.val]


(***************************************************************************)
(* load_players, behind @st.cache_data.  A cache entry holds the returned  *)
(* value and the st.error calls made while computing it; a hit returns the *)
(* value and replays those calls without running the body.                 *)
(***************************************************************************)
FileMissing == [kind |-> "missing"]

FileInvalid == [kind |-> "invalid"]

FileJson(data) == [kind |-> "json", data |-> data]

CacheEmpty == [set |-> FALSE]

\* The body of load_players: open, json.load, and the two except clauses.
ReadFile(f) ==
    IF f.kind = "json" THEN [value |-> f.data, errors |-> <<>>]
    ELSE IF f.kind = "missing"
    THEN [value |-> <<>>, errors |-> <<"data.json file not found">>]
    ELSE [value |-> <<>>, errors |-> <<"Invalid JSON format">>]

\* Variant: load_players without the memo (the body runs on every call).
load_players_uncached(f, c) ==
    LET r == ReadFile(f)
    IN  [value |-> r.value, errors |-> r.errors,
         cache |-> [set |-> TRUE, value |-> r.value, errors |-> r.errors]]

load_players(f, c) ==
    IF c.set
    THEN [value |-> c.value, errors |-> c.errors, cache |-> c]
    ELSE LET r == ReadFile(f)
         IN  [value |-> r.value, errors |-> r.errors,
              cache |-> [set |-> TRUE, value |-> r.value, errors |-> r.errors]]

(***************************************************************************)
(* The vocabulary and the fuzzy match.                                     *)
(***************************************************************************)
BATSMAN == <<"b","a","t","s","m","a","n">>

BOWLER == <<"b","o","w","l","e","r">>

ALL_ROUNDER == <<"a","l","l","-","r","o","u","n","d","e","r">>

PLAYER_LIST == <<"p","l","a","y","e","r"," ","l","i","s","t">>

BEST_PLAYER == <<"b","e","s","t"," ","p","l","a","y","e","r">>

WORST_PLAYER == <<"w","o","r","s","t"," ","p","l","a","y","e","r">>

STANDARD_TERMS ==
    <<BATSMAN, BOWLER, ALL_ROUNDER, PLAYER_LIST, BEST_PLAYER, WORST_PLAYER>>

CATEGORY_TERMS == <<BATSMAN, BOWLER, ALL_ROUNDER>>

THRESHOLD == 60

\* process.extractOne belongs to fuzzywuzzy: it returns one of the choices
\* and a score in 0..100.  The model takes the pair as an input of the call.
NoCall == [query |-> <<>>, match |-> <<>>, score |-> 0]

\* Variant: get_best_match with `score > threshold`.
get_best_match_strict(user_input_, choices, threshold, answer) ==
    IF Strip(user_input_) = <<>> THEN None
    ELSE IF answer.score > threshold THEN Str(answer.match) ELSE None

get_best_match(user_input_, choices, threshold, answer) ==
    IF Strip(user_input_) = <<>> THEN None
    ELSE IF answer.score >= threshold THEN Str(answer.match) ELSE None

(***************************************************************************)
(* Formatting and filtering.                                               *)
(***************************************************************************)
format_player_info(player, index) ==
    [prefix   |-> IF index # None THEN Format(index) ELSE [text |-> ""],
     name     |-> player["Name"].val,
     university |-> player["University"].val,
     category |-> player["Category"].val,
     value    |-> IF GetOrNone(player, "Value") # None
                  THEN [dollar |-> Format(player["Value"])]
                  ELSE [text |-> "N/A"]]

\* [format_player_info(p, i+1) for i, p in enumerate(seq)]
NumberedLines(seq) ==
    [k \in 1..Len(seq) |-> format_player_info(seq[k], Num((k - 1) + 1))]

get_players_by_category(roster, category) ==
    SelectSeq(roster, LAMBDA p :
        /\ Lower(Get(p, "Category", Str(<<>>)).val) = Lower(category)
        /\ GetOrNone(p, "Value") # None)

(***************************************************************************)
(* The responses of process_query.  A response is the returned text with   *)
(* its fixed wording reduced to `kind` and its interpolated fields kept.   *)
(***************************************************************************)
Raised(exception) == [kind |-> "raise", exception |-> exception]

HasValue(p) == GetOrNone(p, "Value") # None

HasPoints(p) == GetOrNone(p, "Player Points") # None

PointsKey(p) == Get(p, "Player Points", Num(0)).val

\* max(seq, key=...) keeps the running maximum unless a later element is
\* strictly greater; min(seq, key=...) likewise with strictly less.
RECURSIVE ScanMax(_, _, _)
ScanMax(seq, i, best) ==
    IF i > Len(seq) THEN seq[best]
    ELSE ScanMax(seq, i + 1, IF PointsKey(seq[i]) > PointsKey(seq[best]) THEN i ELSE best)

RECURSIVE ScanMin(_, _, _)
ScanMin(seq, i, best) ==
    IF i > Len(seq) THEN seq[best]
    ELSE ScanMin(seq, i + 1, IF PointsKey(seq[i]) < PointsKey(seq[best]) THEN i ELSE best)

\* Variant of ScanMax with >= in place of >.
RECURSIVE ScanMaxLast(_, _, _)
ScanMaxLast(seq, i, best) ==
    IF i > Len(seq) THEN seq[best]
    ELSE ScanMaxLast(seq, i + 1, IF PointsKey(seq[i]) >= PointsKey(seq[best]) THEN i ELSE best)

\* Variant: a max that keeps the last of equal maxima.
max_by_points_last(seq) == ScanMaxLast(seq, 2, 1)

max_by_points(seq) == ScanMax(seq, 2, 1)

min_by_points(seq) == ScanMin(seq, 2, 1)

\* Variant: the list numbered by position in the full roster.
list_response_by_roster_position(roster) ==
    LET positions == SelectSeq([k \in 1..Len(roster) |-> k], LAMBDA k : HasValue(roster[k]))
    IN  IF positions = <<>> THEN [kind |-> "list_none"]
        ELSE [kind  |-> "player_list",
              count |-> Len(positions),
              lines |-> [k \in 1..Len(positions) |->
                            format_player_info(roster[positions[k]], Num(positions[k]))]]

\* Lines 64-70: the "player list" branch.
list_response(roster) ==
    LET valid_players == SelectSeq(roster, HasValue)
    IN  IF valid_players = <<>> THEN [kind |-> "list_none"]
        ELSE [kind  |-> "player_list",
              count |-> Len(valid_players),
              lines |-> NumberedLines(valid_players)]

\* Lines 76-86: the detail block of one record.
detail_block(p) ==
    LET points == Get(p, "Player Points", Str("N/A"))
        value  == IF GetOrNone(p, "Value") # None
                  THEN [dollar |-> Format(p["Value"])]
                  ELSE [text |-> "N/A"]
    IN  [kind       |-> "details",
         name       |-> p["Name"].val,
         university |-> p["University"].val,
         category   |-> p["Category"].val,
         value      |-> value,
         points     |-> Format(points)]

\* Variant: the numeric branch without the `- 1`.
index_response_one_based(roster, digits) ==
    IF ~IntAccepts(digits) THEN Raised("ValueError")
    ELSE LET index == IntValue(digits)
         IN  IF 0 <= index /\ index < Len(roster)
             THEN detail_block(roster[index + 1])
             ELSE [kind |-> "index_error", low |-> 1, high |-> Len(roster)]

\* Lines 73-88: the numeric branch, entered when isdigit() holds.
index_response(roster, digits) ==
    IF ~IntAccepts(digits) THEN Raised("ValueError")
    ELSE LET index == IntValue(digits) - 1
         IN  IF 0 <= index /\ index < Len(roster)
             THEN detail_block(roster[index + 1])
             ELSE [kind |-> "index_error", low |-> 1, high |-> Len(roster)]

\* Lines 92-102: the best/worst branch.
best_worst_response(roster) ==
    LET valid_players == SelectSeq(roster, HasPoints)
    IN  IF valid_players = <<>> THEN [kind |-> "no_points"]
        ELSE LET best_player  == max_by_points(valid_players)
                 worst_player == min_by_points(valid_players)
             IN  [kind  |-> "best_worst",
                  best  |-> [name   |-> best_player["Name"].val,
                             points |-> Format(best_player["Player Points"])],
                  worst |-> [name   |-> worst_player["Name"].val,
                             points |-> Format(worst_player["Player Points"])]]

\* Lines 108-113: the category branch.
category_response(roster, best_match) ==
    LET category_players == get_players_by_category(roster, best_match)
    IN  IF category_players = <<>>
        THEN [kind |-> "category_none", term |-> best_match]
        ELSE [kind  |-> "category",
              title |-> Title(best_match) \o <<"s">>,
              count |-> Len(category_players),
              lines |-> NumberedLines(category_players)]

\* Lines 116-122: the help text.
help_response(roster) == [kind |-> "help", low |-> 1, high |-> Len(roster)]

IsCategoryTerm(m) ==
    \E k \in 1..Len(CATEGORY_TERMS) : m = Str(CATEGORY_TERMS[k])

(***************************************************************************)
(* process_query(text) over the roster `players`.  `answer` is what        *)
(* process.extractOne returns if the call on line 40 is reached; `called`  *)
(* tells whether it was.                                                   *)
(***************************************************************************)
\* Variant: process_query with the best/worst test ahead of the others.
process_query_best_first(text, roster, answer) ==
    IF Strip(text) = <<>>
    THEN [out |-> [kind |-> "empty_prompt"], called |-> FALSE]
    ELSE
    LET user_input_lower == Strip(Lower(text))
    IN  IF Contains(user_input_lower, BEST_PLAYER)
            \/ Contains(user_input_lower, WORST_PLAYER)
        THEN [out |-> best_worst_response(roster), called |-> FALSE]
        ELSE IF isdigit(user_input_lower)
        THEN [out |-> index_response(roster, user_input_lower), called |-> FALSE]
        ELSE IF Contains(user_input_lower, PLAYER_LIST)
        THEN [out |-> list_response(roster), called |-> FALSE]
        ELSE
        LET best_match == get_best_match(user_input_lower, STANDARD_TERMS, THRESHOLD, answer)
        IN  IF IsCategoryTerm(best_match)
            THEN [out |-> category_response(roster, best_match.val), called |-> TRUE]
            ELSE [out |-> help_response(roster), called |-> TRUE]

\* Variant: process_query where a fuzzy hit on "player list" lists players.
process_query_fuzzy_list(text, roster, answer) ==
    IF Strip(text) = <<>>
    THEN [out |-> [kind |-> "empty_prompt"], called |-> FALSE]
    ELSE
    LET user_input_lower == Strip(Lower(text))
    IN  IF Contains(user_input_lower, PLAYER_LIST)
        THEN [out |-> list_response(roster), called |-> FALSE]
        ELSE IF isdigit(user_input_lower)
        THEN [out |-> index_response(roster, user_input_lower), called |-> FALSE]
        ELSE IF Contains(user_input_lower, BEST_PLAYER)
                \/ Contains(user_input_lower, WORST_PLAYER)
        THEN [out |-> best_worst_response(roster), called |-> FALSE]
        ELSE
        LET best_match == get_best_match(user_input_lower, STANDARD_TERMS, THRESHOLD, answer)
        IN  IF IsCategoryTerm(best_match)
            THEN [out |-> category_response(roster, best_match.val), called |-> TRUE]
            ELSE IF best_match = Str(PLAYER_LIST)
            THEN [out |-> list_response(roster), called |-> TRUE]
            ELSE [out |-> help_response(roster), called |-> TRUE]

process_query(text, roster, answer) ==
    IF Strip(text) = <<>>
    THEN [out |-> [kind |-> "empty_prompt"], called |-> FALSE]
    ELSE
    LET user_input_lower == Strip(Lower(text))
    IN  IF Contains(user_input_lower, PLAYER_LIST)
        THEN [out |-> list_response(roster), called |-> FALSE]
        ELSE IF isdigit(user_input_lower)
        THEN [out |-> index_response(roster, user_input_lower), called |-> FALSE]
        ELSE IF Contains(user_input_lower, BEST_PLAYER)
                \/ Contains(user_input_lower, WORST_PLAYER)
        THEN [out |-> best_worst_response(roster), called |-> FALSE]
        ELSE
        LET best_match == get_best_match(user_input_lower, STANDARD_TERMS, THRESHOLD, answer)
        IN  IF IsCategoryTerm(best_match)
            THEN [out |-> category_response(roster, best_match.val), called |-> TRUE]
            ELSE [out |-> help_response(roster), called |-> TRUE]

(***************************************************************************)
(* The inputs of the model: the contents of data.json, the texts typed     *)
(* into the widget, and the answers of process.extractOne.                 *)
(***************************************************************************)
Absent == [k \in {} |-> None]

\* The ways one optional field can appear in a JSON object.
Optional(key, values) == {Absent} \cup {key :> v : v \in values}

PlayerRecords(names, categories, valueFields, pointsFields) ==
    {("Name" :> Str(n)) @@ ("University" :> Str("Colombo")) @@ ("Category" :> Str(c))
        @@ v @@ pts :
        n \in names, c \in categories, v \in valueFields, pts \in pointsFields}

Rosters(records) == UNION {[1..n -> records] : n \in 0..MaxPlayers}

Files(records) ==
    {FileMissing, FileInvalid} \cup {FileJson(r) : r \in Rosters(records)}

UpperStr(s) == [i \in 1..Len(s) |-> UpperChar(s[i])]

Sp == <<" ">>

BATSMEN == <<"b","a","t","s","m","e","n">>

\* Categories as data.json spells them.
FileCategories == {Title(BATSMAN), UpperStr(BOWLER)}

MainRecords ==
    PlayerRecords({"A"}, FileCategories, Optional("Value", {Num(5)}), {Absent})

ListRecords ==
    PlayerRecords({"A"}, FileCategories, Optional("Value", {None, Num(5), Num(6)}),
                  {Absent})

LookupRecords ==
    PlayerRecords({"A", "B"}, {Title(BATSMAN)},
                  Optional("Value", {None, Num(5)}),
                  Optional("Player Points", {None, Num(7)}))

BestRecords ==
    PlayerRecords({"A", "B"}, {Title(BATSMAN)}, {Absent},
                  Optional("Player Points", {None, Num(1), Num(2)}))

SessionRecords ==
    PlayerRecords({"A"}, {Title(BATSMAN)}, {"Value" :> Num(5)},
                  Optional("Player Points", {Num(1)}))

DigitInputs ==
    { <<"0">>, <<"1">>, <<"2">>, <<"3">>, <<"4">>, <<"0","2">>, <<"1","0">>,
      <<" ","2"," ">> }

BestInputs ==
    { BEST_PLAYER, WORST_PLAYER, UpperStr(BEST_PLAYER),
      <<"t","h","e"," ">> \o WORST_PLAYER \o <<"?">> }

ListInputs ==
    { PLAYER_LIST, <<"b","e","s","t"," ">> \o PLAYER_LIST, UpperStr(PLAYER_LIST),
      BATSMAN, BATSMEN, Title(BOWLER) }

Inputs ==
    { <<>>, Sp, <<" ", "\t">>,
      PLAYER_LIST, UpperStr(PLAYER_LIST), Sp \o PLAYER_LIST \o Sp,
      <<"b","e","s","t"," ">> \o PLAYER_LIST,
      <<"w","o","r","s","t"," ">> \o PLAYER_LIST \o <<" ","3">>,
      BATSMAN \o Sp \o PLAYER_LIST,
      BEST_PLAYER, WORST_PLAYER, Title(BEST_PLAYER),
      BEST_PLAYER \o Sp \o BATSMAN,
      <<"0">>, <<"1">>, <<"3">>, <<" ","2"," ">>,
      <<"SUPERSCRIPT TWO">>, <<"1","SUPERSCRIPT TWO">>,
      BATSMAN, BATSMEN, Title(BOWLER), ALL_ROUNDER,
      <<"x","y","z","1","2","3">>, <<"p","l","a","y","e","r","l","i","s","t">>,
      <<"2","x">> }

SessionInputs ==
    { <<>>, PLAYER_LIST, <<"1">>, <<"SUPERSCRIPT TWO">>, BEST_PLAYER, BATSMAN,
      <<"x","y","z">> }

Scores == {0, THRESHOLD - 1, THRESHOLD, 100}

Answers(choices) ==
    {[match |-> choices[k], score |-> s] : k \in 1..Len(choices), s \in Scores}

NoAnswer == [match |-> <<>>, score |-> 0]

NoResponse == [kind |-> "none"]

(***************************************************************************)
(* The session.  Streamlit runs the script top to bottom on every event:   *)
(* line 27 loads the roster through the cache and lines 174-177 answer     *)
(* the widget's text when it is not empty.                                 *)
(***************************************************************************)
InitWith(files) ==
    /\ file \in files
    /\ LET ld == load_players(file, CacheEmpty)
       IN  /\ cache = ld.cache
           /\ players = ld.value
           /\ banner = ld.errors
    /\ user_input = <<>>
    /\ pc = "idle"
    /\ lib = NoCall
    /\ response = NoResponse

\* The user enters a text: the widget takes it and a script run is queued.
Submit(texts) ==
    /\ pc = "idle"
    /\ \E s \in texts : user_input' = s
    /\ pc' = "rerun"
    /\ lib' = NoCall
    /\ response' = NoResponse
    /\ UNCHANGED <<file, cache, players, banner>>

\* The Clear button: its run reaches st.rerun() on line 171, after line 27
\* and before line 174, and queues a run with the widget's text unchanged.
ClickClear ==
    /\ pc = "idle"
    /\ LET ld == load_players(file, cache)
       IN  /\ cache' = ld.cache
           /\ players' = ld.value
           /\ banner' = ld.errors
    /\ pc' = "rerun"
    /\ UNCHANGED <<file, user_input, lib, response>>

\* One run of the script.  extractOne is a function of its arguments: a
\* run that repeats the latest call gets the latest answer.
ScriptRun ==
    /\ pc = "rerun"
    /\ LET ld == load_players(file, cache)
       IN  /\ cache' = ld.cache
           /\ players' = ld.value
           /\ banner' = ld.errors
           /\ IF user_input = <<>>
              THEN /\ response' = NoResponse
                   /\ lib' = NoCall
              ELSE LET q == Strip(Lower(user_input))
                       reached == process_query(user_input, ld.value, NoAnswer).called
                       answers ==
                           IF ~reached THEN {NoAnswer}
                           ELSE IF lib # NoCall /\ lib.query = q
                           THEN {[match |-> lib.match, score |-> lib.score]}
                           ELSE Answers(STANDARD_TERMS)
                   IN  \E a \in answers :
                         /\ response' = process_query(user_input, ld.value, a).out
                         /\ lib' = IF reached
                                   THEN [query |-> q, match |-> a.match, score |-> a.score]
                                   ELSE NoCall
    /\ pc' = "idle"
    /\ UNCHANGED <<file, user_input>>

\* data.json is replaced on disk by something outside the program.
DiskWrite(files) ==
    /\ \E f \in files : f # file /\ file' = f
    /\ UNCHANGED <<cache, players, banner, user_input, pc, lib, response>>

Init == InitWith(Files(MainRecords))

Next == Submit(Inputs) \/ ClickClear \/ ScriptRun

Spec == Init /\ [][Next]_vars

InitList == InitWith(Files(ListRecords))

NextList == Submit(ListInputs) \/ ClickClear \/ ScriptRun

SpecList == InitList /\ [][NextList]_vars

InitLookup == InitWith(Files(LookupRecords))

NextLookup == Submit(DigitInputs) \/ ClickClear \/ ScriptRun

SpecLookup == InitLookup /\ [][NextLookup]_vars

InitBest == InitWith(Files(BestRecords))

NextBest == Submit(BestInputs) \/ ClickClear \/ ScriptRun

SpecBest == InitBest /\ [][NextBest]_vars

InitSession == InitWith(Files(SessionRecords))

NextSession ==
    Submit(SessionInputs) \/ ClickClear \/ ScriptRun \/ DiskWrite(Files(SessionRecords))

SpecSession == InitSession /\ [][NextSession]_vars

(***************************************************************************)
(* Properties.  A query is answered when the run queued for it is over.    *)
(***************************************************************************)
Answered == pc = "idle" /\ response # NoResponse

Trimmed == Strip(Lower(user_input))

IsEmptyInput == Strip(user_input) = <<>>

SaysPlayerList == Contains(Lower(user_input), PLAYER_LIST)

AllDigits == isdigit(Strip(user_input))

SaysBestOrWorst ==
    Contains(Lower(user_input), BEST_PLAYER) \/ Contains(Lower(user_input), WORST_PLAYER)

FuzzyAccepted == lib # NoCall /\ lib.query = Trimmed /\ lib.score >= 60

FuzzyCategory == FuzzyAccepted /\ lib.match \in {BATSMAN, BOWLER, ALL_ROUNDER}

LowestRule ==
    IF IsEmptyInput THEN 0
    ELSE IF SaysPlayerList THEN 1
    ELSE IF AllDigits THEN 2
    ELSE IF SaysBestOrWorst THEN 3
    ELSE IF FuzzyCategory THEN 4
    ELSE 5

RuleKinds(rule) ==
    CASE rule = 0 -> {"empty_prompt"}
      [] rule = 1 -> {"player_list", "list_none"}
      [] rule = 2 -> {"details", "index_error"}
      [] rule = 3 -> {"best_worst", "no_points"}
      [] rule = 4 -> {"category", "category_none"}
      [] rule = 5 -> {"help"}

ValuePresent(i) == "Value" \in DOMAIN players[i] /\ players[i]["Value"] # None

PointsPresent(i) ==
    "Player Points" \in DOMAIN players[i] /\ players[i]["Player Points"] # None

Rank(i, positions) == Cardinality({j \in positions : j <= i})

\* `resp` lists exactly the records at `positions`, in roster order, numbered
\* by their rank among `positions`.
ListsExactly(resp, positions) ==
    /\ resp.count = Cardinality(positions)
    /\ Len(resp.lines) = Cardinality(positions)
    /\ \A i \in positions :
         LET ln == resp.lines[Rank(i, positions)]
         IN  /\ ln.prefix = [number |-> Rank(i, positions)]
             /\ ln.name = players[i]["Name"].val
             /\ ln.university = players[i]["University"].val
             /\ ln.category = players[i]["Category"].val
             /\ ln.value = [dollar |-> [number |-> players[i]["Value"].val]]

\* C1: the response is the one of the lowest-numbered rule whose precondition
\* the input satisfies (0 empty, 1 "player list", 2 all digits, 3 best/worst,
\* 4 fuzzy category, 5 help); the only other outcome is the exception raised
\* inside rule 2 itself, and no later rule's response is ever returned.
C1_FirstMatchingRuleWins ==
    Answered =>
        \/ response.kind \in RuleKinds(LowestRule)
        \/ LowestRule = 2 /\ response.kind = "raise"

C1_Witness ==
    /\ Answered
    /\ SaysPlayerList /\ SaysBestOrWorst
    /\ Len(Trimmed) > Len(PLAYER_LIST) + 6
    /\ response.kind = "player_list"

\* C2: process_query never raises: every answered query displays a string.
C2_NeverRaises == Answered => response.kind # "raise"

DecimalOf(n) ==
    IF n < 10 THEN <<DecimalDigits[n + 1]>>
    ELSE <<DecimalDigits[(n \div 10) + 1], DecimalDigits[(n % 10) + 1]>>

\* s is the numeral of n, possibly with leading zeros.
Denotes(s, n) == \E z \in 0..2 : s = [i \in 1..z |-> "0"] \o DecimalOf(n)

\* C3: an input of decimal digits denoting n returns the detail block of the
\* record at 1-based position n of the full roster when 1 <= n <= count,
\* valued or not, and the out-of-range error naming 1..count otherwise.
C3_NumericLookup ==
    (Answered /\ IntAccepts(Strip(user_input))) =>
        /\ \E n \in 0..20 : Denotes(Strip(user_input), n)
        /\ \A n \in 0..20 :
             Denotes(Strip(user_input), n) =>
                IF 1 <= n /\ n <= Len(players)
                THEN /\ response.kind = "details"
                     /\ response.name = players[n]["Name"].val
                     /\ response.university = players[n]["University"].val
                     /\ response.category = players[n]["Category"].val
                     /\ IF ValuePresent(n)
                        THEN response.value = [dollar |-> [number |-> players[n]["Value"].val]]
                        ELSE "dollar" \notin DOMAIN response.value
                ELSE response = [kind |-> "index_error", low |-> 1, high |-> Len(players)]

C3_Witness ==
    /\ Answered
    /\ Strip(user_input) = <<"2">>
    /\ Len(players) >= 2
    /\ ~ValuePresent(2) /\ ValuePresent(1)
    /\ players[1]["Name"] # players[2]["Name"]
    /\ response.kind = "details"
    /\ response.name = players[2]["Name"].val

\* C4: in a detail block, Value shows "N/A" when the record's value is
\* missing or null and Points shows "N/A" when its points is missing or
\* null; otherwise each shows the record's own number.
C4_AbsentFieldsShowNA ==
    (Answered /\ response.kind = "details") =>
        LET n == IntValue(Trimmed)
        IN  /\ response.value =
                  IF ValuePresent(n)
                  THEN [dollar |-> [number |-> players[n]["Value"].val]]
                  ELSE [text |-> "N/A"]
            /\ response.points =
                  IF PointsPresent(n)
                  THEN [number |-> players[n]["Player Points"].val]
                  ELSE [text |-> "N/A"]

\* C5: an input containing "player list" returns the records with a non-null
\* value, in roster order, numbered 1..N by position in the filtered list,
\* with N in the header; with N = 0 the none-found message.
C5_PlayerListFiltered ==
    (Answered /\ SaysPlayerList) =>
        LET valued == {i \in 1..Len(players) : ValuePresent(i)}
        IN  IF valued = {} THEN response = [kind |-> "list_none"]
            ELSE response.kind = "player_list" /\ ListsExactly(response, valued)

C5_Witness ==
    /\ Answered /\ SaysPlayerList
    /\ Len(players) = 2
    /\ ~ValuePresent(1) /\ ValuePresent(2)
    /\ response.kind = "player_list" /\ response.count = 1

\* C6: best/worst considers only records with non-null points; best has
\* points >= all of them, worst <= all of them, the earliest record wins a
\* tie in both, both are in the one message for "best player" and for "worst
\* player", and with no such record the no-points message is returned.
C6_BestWorstFirstExtremal ==
    (Answered /\ SaysBestOrWorst /\ ~SaysPlayerList /\ ~AllDigits) =>
        LET scored == {i \in 1..Len(players) : PointsPresent(i)}
            pts(i) == players[i]["Player Points"].val
            shown(i) == [name |-> players[i]["Name"].val, points |-> [number |-> pts(i)]]
        IN  IF scored = {} THEN response = [kind |-> "no_points"]
            ELSE /\ response.kind = "best_worst"
                 /\ \E b \in scored :
                      /\ \A j \in scored : pts(b) >= pts(j)
                      /\ \A j \in scored : pts(j) = pts(b) => b <= j
                      /\ response.best = shown(b)
                 /\ \E w \in scored :
                      /\ \A j \in scored : pts(w) <= pts(j)
                      /\ \A j \in scored : pts(j) = pts(w) => w <= j
                      /\ response.worst = shown(w)

C6_Witness ==
    /\ Answered
    /\ user_input = WORST_PLAYER
    /\ Len(players) = 2
    /\ PointsPresent(1) /\ PointsPresent(2)
    /\ players[1]["Player Points"] = players[2]["Player Points"]
    /\ players[1]["Name"] # players[2]["Name"]
    /\ response.kind = "best_worst"
    /\ response.best.name = players[1]["Name"].val
    /\ response.worst.name = players[1]["Name"].val

C8_EmptyRosterDegrades ==
    /\ file.kind # "json" => (players = <<>> /\ banner # <<>>)
    /\ (Answered /\ players = <<>> /\ ~IsEmptyInput) =>
         IF SaysPlayerList THEN response.kind = "list_none"
         ELSE IF AllDigits THEN response = [kind |-> "index_error", low |-> 1, high |-> 0]
         ELSE IF SaysBestOrWorst THEN response.kind = "no_points"
         ELSE IF FuzzyCategory THEN response.kind = "category_none"
         ELSE response.kind = "help"

\* C9: after the first load the roster never changes, whatever happens to
\* data.json: every later load_players call returns the cached sequence; and
\* a run that repeats a query on that roster repeats its response.
C9_RosterFixed ==
    [][ /\ cache' = cache
        /\ players' = players
        /\ (pc = "rerun" /\ response # NoResponse /\ pc' = "idle")
              => response' = response ]_vars

C9_Witness ==
    /\ Answered
    /\ cache.set /\ players = cache.value
    /\ file.kind = "json" /\ file.data # players
    /\ Len(file.data) = 2 /\ Len(players) = 1
    /\ user_input = <<"1">> /\ response.kind = "details"

=============================================================================
